---- MODULE Spec2Model ----
(***************************************************************************)
(* cron-job-list (src/main.go): main reads a JSON list of host/user pairs, *)
(* starts one goroutine `call` per pair, each of which opens an SSH        *)
(* session, runs `crontab -l` and prints the result; main waits on a       *)
(* sync.WaitGroup.                                                         *)
(*                                                                         *)
(* One action per step of main and per step of a `call` goroutine.  The    *)
(* steps of a goroutine are cut at its blocking calls and at its writes to *)
(* the shared streams, so that every interleaving of the goroutines and of *)
(* main is a behaviour of the model.                                       *)
(***************************************************************************)
EXTENDS Integers, Sequences, FiniteSets, TLC

\* ------------------------------------------------------------ bounds
\* The largest number of elements of the configuration file's array.
MaxDests == 2
\* The largest number of bytes `crontab -l` prints on a remote host.
MaxOut == 2

Units == 1..MaxDests

\* ------------------------------------------------------------ state
VARIABLES
    help,        \* flag -h (main.go:17,27)
    privateKey,  \* flag -i (main.go:19,29), then the resolved path (main.go:66)
    port,        \* flag -p (main.go:20,30), then the resolved port (main.go:70)
    nargs,       \* len(flag.Args()) (main.go:40)
    file,        \* the configuration file named by args[0]
    faults,      \* the remote steps that may fail in this environment
    crontabs,    \* the byte strings `crontab -l` may print on the remote hosts
    pcMain,      \* position of main
    dests,       \* var dests []Dest (main.go:53)
    next,        \* index of the range loop of main.go:75
    wg,          \* counter of the sync.WaitGroup (main.go:73)
    exitCode,    \* -1 while the process runs, then its exit status
    pc,          \* position of each goroutine `call`
    session,     \* each goroutine's  session *Session (main.go:83)
    err,         \* each goroutine's  err (main.go:83, reassigned at main.go:89)
    bytes,       \* each goroutine's  bytes (main.go:89)
    conn,        \* the transport connection a goroutine dialled: none/open/closed
    chan,        \* the command channel a goroutine created: none/open/closed
    panics,      \* the run-time panics raised in each goroutine, in order
    stdout,      \* the writes to os.Stdout, in order
    stderr       \* the writes to os.Stderr, in order

vars == <<help, privateKey, port, nargs, file, faults, crontabs, pcMain, dests, next,
          wg, exitCode, pc, session, err, bytes, conn, chan, panics,
          stdout, stderr>>

flagVars == <<help, nargs, file, faults, crontabs>>
unitVars == <<pc, session, err, bytes, conn, chan, panics>>

\* ------------------------------------------------------------ JSON text
\* A JSON text is malformed or one value.  A value is kept by its type: t is
\* "null", "num", "str", "obj" or "arr".  An object is kept by what it holds
\* under the keys "host" and "user": a value, or Absent when it lacks the key.
Absent == [t |-> "absent", v |-> ""]
JNull == [t |-> "null", v |-> ""]
JNum == [t |-> "num", v |-> ""]
JStr(s) == [t |-> "str", v |-> s]

JObj(h, u) == [t |-> "obj", host |-> h, user |-> u]
JNullElem == [t |-> "null", host |-> Absent, user |-> Absent]
JNumElem == [t |-> "num", host |-> Absent, user |-> Absent]

JArr(es) == [t |-> "arr", elems |-> es]
JTop(t) == [t |-> t, elems |-> <<>>]

SeqsUpTo(S, n) == UNION {[1..k -> S] : k \in 0..n}

\* ------------------------------------------------------------ json.Decoder
defaultPort == "22"

\* type Dest struct (main.go:110-113)
Dest(h, u) == [Host |-> h, User |-> u]

\* encoding/json storing a value into a string field: a string is stored, null
\* leaves the field as it is, a key that is absent never reaches the field, and
\* any other value is an UnmarshalTypeError.
DecodeField(f) ==
    CASE f.t = "str" -> [val |-> f.v, err |-> FALSE]
      [] f.t \in {"absent", "null"} -> [val |-> "", err |-> FALSE]
      [] OTHER -> [val |-> "", err |-> TRUE]

\* encoding/json storing an array element into a Dest.
DecodeElem(e) ==
    CASE e.t = "obj" ->
            [dest |-> Dest(DecodeField(e.host).val, DecodeField(e.user).val),
             err |-> DecodeField(e.host).err \/ DecodeField(e.user).err]
      [] e.t = "null" -> [dest |-> Dest("", ""), err |-> FALSE]
      [] OTHER -> [dest |-> Dest("", ""), err |-> TRUE]

DecodeStrict(j) ==
    CASE j.t = "arr" ->
            [dests |-> [k \in 1..Len(j.elems) |-> DecodeElem(j.elems[k]).dest],
             err |-> IF \E k \in 1..Len(j.elems) :
                            \/ DecodeElem(j.elems[k]).err
                            \/ j.elems[k].t # "obj"
                            \/ j.elems[k].host.t # "str"
                            \/ j.elems[k].user.t # "str"
                     THEN "json: cannot unmarshal" ELSE ""]
      [] j.t = "null" -> [dests |-> <<>>, err |-> ""]
      [] j.t = "malformed" -> [dests |-> <<>>, err |-> "invalid character"]
      [] OTHER -> [dests |-> <<>>, err |-> "json: cannot unmarshal"]

\* decoder.Decode(&dests) (main.go:53-55): the decoded slice and the error's
\* text, "" for a nil error.
Decode(j) ==
    CASE j.t = "arr" ->
            [dests |-> [k \in 1..Len(j.elems) |-> DecodeElem(j.elems[k]).dest],
             err |-> IF \E k \in 1..Len(j.elems) : DecodeElem(j.elems[k]).err
                     THEN "json: cannot unmarshal" ELSE ""]
      [] j.t = "null" -> [dests |-> <<>>, err |-> ""]
      [] j.t = "malformed" -> [dests |-> <<>>, err |-> "invalid character"]
      [] OTHER -> [dests |-> <<>>, err |-> "json: cannot unmarshal"]

\* ------------------------------------------------------------ fmt
\* string(bytes): the bytes, one after the other.
RECURSIVE String(_)
String(s) == IF s = <<>> THEN "" ELSE Head(s) \o String(Tail(s))

\* What fmt writes for a verb that has no operand left, and for a '%' that
\* ends the format.
MissingArg(verb) == <<"%", "!", verb, "(", "M", "I", "S", "S", "I", "N", "G", ")">>
NoVerb == <<"%", "!", "(", "N", "O", "V", "E", "R", "B", ")">>

\* fmt.Sprintf(format) with no operands (main.go:99): text is copied up to the
\* next '%'; "%%" writes '%'; '%' and a verb writes the missing-operand mark;
\* '%' at the end writes the no-verb mark.  (The bytes of Outputs hold no flag,
\* width or precision character, which fmt would read between '%' and the verb.)
RECURSIVE Sprintf(_)
Sprintf(f) ==
    IF f = <<>> THEN <<>>
    ELSE IF Head(f) # "%" THEN <<Head(f)>> \o Sprintf(Tail(f))
    ELSE IF Len(f) = 1 THEN NoVerb
    ELSE IF f[2] = "%" THEN <<"%">> \o Sprintf(SubSeq(f, 3, Len(f)))
    ELSE MissingArg(f[2]) \o Sprintf(SubSeq(f, 3, Len(f)))

\* One write to a stream: who wrote, the format and its operands.
Write(u, format, args) == [unit |-> u, fmt |-> format, args |-> args]

\* ------------------------------------------------------------ Session
\* A *Session: the nil pointer, or a Session whose conn and session fields are
\* set or nil (main.go:116-121).
NilSession == [nil |-> TRUE, conn |-> FALSE, session |-> FALSE]
SessionOf(c, s) == [nil |-> FALSE, conn |-> c, session |-> s]

\* The steps of NewSession that can fail.
OpenFaults == {"ReadFile", "ParsePrivateKey", "Dial", "NewSession"}

\* The errors session.Output can return (main.go:174) where the command can
\* fail: none, or the command's non-zero exit.
OutputErrors(fs) ==
    {""} \cup (IF "Output" \in fs THEN {"Process exited with status 1"} ELSE {})

\* NewSession (main.go:124-158): what it returns and the resources it has
\* acquired when it returns.
NewSession(outcome) ==
    CASE outcome \in {"ReadFile", "ParsePrivateKey", "Dial"} ->
            [session |-> NilSession, err |-> outcome,
             conn |-> "none", chan |-> "none"]
      [] outcome = "NewSession" ->
            [session |-> NilSession, err |-> outcome,
             conn |-> "open", chan |-> "none"]
      [] OTHER ->
            [session |-> SessionOf(TRUE, TRUE), err |-> "",
             conn |-> "open", chan |-> "open"]

\* (*Session).Close (main.go:161-169) on s, with the resources in states c
\* (connection) and h (channel): reading s.session through a nil s panics.
Close(s, c, h) ==
    IF s.nil THEN [panic |-> TRUE, conn |-> c, chan |-> h]
    ELSE [panic |-> FALSE,
          conn |-> IF s.conn THEN "closed" ELSE c,
          chan |-> IF s.session THEN "closed" ELSE h]

\* ------------------------------------------------------------ main
Running == exitCode = -1

Exit(code) == /\ exitCode' = code

\* A goroutine that is panicking: the run time keeps main from exiting while
\* a panic is being reported.
Panicking == \E i \in Units : pc[i] \in {"panic", "fatal"}

\* main.go:35-38
MainHelp ==
    /\ Running /\ pcMain = "help"
    /\ IF help
       THEN /\ stderr' = stderr \o <<Write(0, "Usage: %s [configfile]\n", <<"argv0">>),
                                     Write(0, "Flags:\n", <<>>)>>
            /\ Exit(0)
            /\ UNCHANGED pcMain
       ELSE /\ pcMain' = "args"
            /\ UNCHANGED <<stderr, exitCode>>
    /\ UNCHANGED <<flagVars, privateKey, port, dests, next, wg, unitVars, stdout>>

MainArgsLax ==
    /\ Running /\ pcMain = "args"
    /\ IF nargs < 1
       THEN /\ stderr' = stderr \o <<Write(0, "ERROR: Arguments length is invalid\n", <<>>),
                                     Write(0, "Usage: %s [configfile]\n", <<"argv0">>)>>
            /\ Exit(1)
            /\ UNCHANGED pcMain
       ELSE /\ pcMain' = "open"
            /\ UNCHANGED <<stderr, exitCode>>
    /\ UNCHANGED <<flagVars, privateKey, port, dests, next, wg, unitVars, stdout>>

\* main.go:40-45
MainArgs ==
    /\ Running /\ pcMain = "args"
    /\ IF nargs # 1
       THEN /\ stderr' = stderr \o <<Write(0, "ERROR: Arguments length is invalid\n", <<>>),
                                     Write(0, "Usage: %s [configfile]\n", <<"argv0">>)>>
            /\ Exit(1)
            /\ UNCHANGED pcMain
       ELSE /\ pcMain' = "open"
            /\ UNCHANGED <<stderr, exitCode>>
    /\ UNCHANGED <<flagVars, privateKey, port, dests, next, wg, unitVars, stdout>>

\* main.go:47-51
MainOpen ==
    /\ Running /\ pcMain = "open"
    /\ IF ~file.opens
       THEN /\ stderr' = Append(stderr, Write(0, "%s\n", <<"open: no such file or directory">>))
            /\ Exit(1)
            /\ UNCHANGED pcMain
       ELSE /\ pcMain' = "decode"
            /\ UNCHANGED <<stderr, exitCode>>
    /\ UNCHANGED <<flagVars, privateKey, port, dests, next, wg, unitVars, stdout>>

\* main.go:53-58
MainDecode ==
    /\ Running /\ pcMain = "decode"
    /\ dests' = Decode(file.json).dests
    /\ IF Decode(file.json).err # ""
       THEN /\ stderr' = Append(stderr, Write(0, "%s\n", <<Decode(file.json).err>>))
            /\ Exit(1)
            /\ UNCHANGED pcMain
       ELSE /\ pcMain' = "defaults"
            /\ UNCHANGED <<stderr, exitCode>>
    /\ UNCHANGED <<flagVars, privateKey, port, next, wg, unitVars, stdout>>

\* main.go:60-71: homedir.Dir() may fail
MainDefaults ==
    /\ Running /\ pcMain = "defaults"
    /\ \E home \in {"", "/home/me"} :
         IF privateKey = "" /\ home = ""
         THEN /\ stderr' = Append(stderr, Write(0, "%s\n", <<"missing home directory">>))
              /\ Exit(1)
              /\ UNCHANGED <<pcMain, privateKey, port>>
         ELSE /\ privateKey' = IF privateKey = "" THEN home \o "/.ssh/id_rsa" ELSE privateKey
              /\ port' = IF port = "" THEN defaultPort ELSE port
              /\ pcMain' = "add"
              /\ UNCHANGED <<stderr, exitCode>>
    /\ UNCHANGED <<flagVars, dests, next, wg, unitVars, stdout>>

\* main.go:73-74
MainAdd ==
    /\ Running /\ pcMain = "add"
    /\ wg' = wg + Len(dests)
    /\ next' = 1
    /\ pcMain' = "go"
    /\ UNCHANGED <<flagVars, privateKey, port, dests, exitCode, unitVars, stdout, stderr>>

\* main.go:75-77: one iteration of the loop, or its end
MainGo ==
    /\ Running /\ pcMain = "go"
    /\ IF next <= Len(dests)
       THEN /\ pc' = [pc EXCEPT ![next] = "start"]
            /\ next' = next + 1
            /\ UNCHANGED pcMain
       ELSE /\ pcMain' = "wait"
            /\ UNCHANGED <<pc, next>>
    /\ UNCHANGED <<flagVars, privateKey, port, dests, wg, exitCode,
                   session, err, bytes, conn, chan, panics, stdout, stderr>>

\* main.go:78-79: wg.Wait() returns and main returns
MainWait ==
    /\ Running /\ pcMain = "wait"
    /\ wg = 0
    /\ ~Panicking
    /\ Exit(0)
    /\ UNCHANGED <<flagVars, privateKey, port, pcMain, dests, next, wg,
                   unitVars, stdout, stderr>>

\* ------------------------------------------------------------ call
\* main.go:83-87: NewSession, the report of its error, defer session.Close()
CallNewSession(i) ==
    /\ Running /\ pc[i] = "start"
    /\ \E outcome \in (faults \cap OpenFaults) \cup {"ok"} :
         LET r == NewSession(outcome) IN
         /\ session' = [session EXCEPT ![i] = r.session]
         /\ err' = [err EXCEPT ![i] = r.err]
         /\ conn' = [conn EXCEPT ![i] = r.conn]
         /\ chan' = [chan EXCEPT ![i] = r.chan]
         /\ stderr' = IF r.err # ""
                      THEN Append(stderr, Write(i, "ERROR: [Host] %s@%s\n",
                                                <<dests[i].Host, dests[i].User>>))
                      ELSE stderr
    /\ pc' = [pc EXCEPT ![i] = "get"]
    /\ UNCHANGED <<flagVars, privateKey, port, pcMain, dests, next, wg,
                   exitCode, bytes, panics, stdout>>

\* main.go:89-97: session.GetCrontab() (main.go:172-175) and the report of its
\* error.  Reading s.session through a nil s panics.  Output returns what the
\* command wrote to its standard output together with the error.
CallGetCrontab(i) ==
    /\ Running /\ pc[i] = "get"
    /\ IF session[i].nil
       THEN /\ panics' = [panics EXCEPT ![i] = Append(@, "GetCrontab")]
            /\ pc' = [pc EXCEPT ![i] = "panic"]
            /\ UNCHANGED <<bytes, err, stderr>>
       ELSE \E out \in crontabs, e \in OutputErrors(faults) :
            /\ bytes' = [bytes EXCEPT ![i] = out]
            /\ err' = [err EXCEPT ![i] = e]
            /\ stderr' = IF e # ""
                         THEN stderr \o
                              <<Write(i, "ERROR: [Host] %s@%s\n", <<dests[i].Host, dests[i].User>>),
                                Write(i, "ERROR: [Host] %s@%s\n", <<dests[i].Host, dests[i].User>>),
                                Write(i, "%s\n", <<e>>)>>
                         ELSE stderr
            /\ pc' = [pc EXCEPT ![i] = "print"]
            /\ UNCHANGED panics
    /\ UNCHANGED <<flagVars, privateKey, port, pcMain, dests, next, wg,
                   exitCode, session, conn, chan, stdout>>

\* main.go:100
CallPrintHost(i) ==
    /\ Running /\ pc[i] = "print"
    /\ stdout' = Append(stdout, Write(i, "[Host] %s@%s\n", <<dests[i].User, dests[i].Host>>))
    /\ pc' = [pc EXCEPT ![i] = "content"]
    /\ UNCHANGED <<flagVars, privateKey, port, pcMain, dests, next, wg,
                   exitCode, session, err, bytes, conn, chan, panics, stderr>>

\* main.go:99,101
CallPrintContent(i) ==
    /\ Running /\ pc[i] = "content"
    /\ stdout' = Append(stdout, Write(i, "[Content] \n%s\n", <<String(Sprintf(bytes[i]))>>))
    /\ pc' = [pc EXCEPT ![i] = "return"]
    /\ UNCHANGED <<flagVars, privateKey, port, pcMain, dests, next, wg,
                   exitCode, session, err, bytes, conn, chan, panics, stderr>>

\* The deferred calls of a goroutine that returns: session.Close() (main.go:87),
\* then wg.Done() (main.go:82).
CallReturn(i) ==
    /\ Running /\ pc[i] = "return"
    /\ LET c == Close(session[i], conn[i], chan[i]) IN
       /\ conn' = [conn EXCEPT ![i] = c.conn]
       /\ chan' = [chan EXCEPT ![i] = c.chan]
       /\ panics' = IF c.panic THEN [panics EXCEPT ![i] = Append(@, "Close")] ELSE panics
       /\ pc' = [pc EXCEPT ![i] = IF c.panic THEN "fatal" ELSE "done"]
    /\ wg' = wg - 1
    /\ UNCHANGED <<flagVars, privateKey, port, pcMain, dests, next,
                   exitCode, session, err, bytes, stdout, stderr>>

\* The deferred calls of a goroutine that panics: session.Close() (main.go:87),
\* which may panic in its turn, then wg.Done() (main.go:82).
CallUnwind(i) ==
    /\ Running /\ pc[i] = "panic"
    /\ LET c == Close(session[i], conn[i], chan[i]) IN
       /\ conn' = [conn EXCEPT ![i] = c.conn]
       /\ chan' = [chan EXCEPT ![i] = c.chan]
       /\ panics' = IF c.panic THEN [panics EXCEPT ![i] = Append(@, "Close")] ELSE panics
    /\ wg' = wg - 1
    /\ pc' = [pc EXCEPT ![i] = "fatal"]
    /\ UNCHANGED <<flagVars, privateKey, port, pcMain, dests, next,
                   exitCode, session, err, bytes, stdout, stderr>>

\* A panic that no deferred call recovers ends the process with status 2.
Crash(i) ==
    /\ Running /\ pc[i] = "fatal"
    /\ Exit(2)
    /\ UNCHANGED <<flagVars, privateKey, port, pcMain, dests, next, wg,
                   unitVars, stdout, stderr>>

\* ------------------------------------------------------------ specifications
Next ==
    \/ MainHelp
    \/ MainArgs
    \/ MainOpen
    \/ MainDecode
    \/ MainDefaults
    \/ MainAdd
    \/ MainGo
    \/ MainWait
    \/ \E i \in Units : CallNewSession(i)
    \/ \E i \in Units : CallGetCrontab(i)
    \/ \E i \in Units : CallPrintHost(i)
    \/ \E i \in Units : CallPrintContent(i)
    \/ \E i \in Units : CallReturn(i)
    \/ \E i \in Units : CallUnwind(i)
    \/ \E i \in Units : Crash(i)

\* The state when main starts, but for the inputs.
Start ==
    /\ pcMain = "help"
    /\ dests = <<>>
    /\ next = 0
    /\ wg = 0
    /\ exitCode = -1
    /\ pc = [i \in Units |-> "idle"]
    /\ session = [i \in Units |-> NilSession]
    /\ err = [i \in Units |-> ""]
    /\ bytes = [i \in Units |-> <<>>]
    /\ conn = [i \in Units |-> "none"]
    /\ chan = [i \in Units |-> "none"]
    /\ panics = [i \in Units |-> <<>>]
    /\ stdout = <<>>
    /\ stderr = <<>>

NoFile == [opens |-> FALSE, json |-> JTop("malformed")]
FileOf(j) == [opens |-> TRUE, json |-> j]

\* Configuration files whose elements are all objects with both fields.
Hosts == {"h1", "h2"}
Users == {"u1"}
GoodElems == {JObj(JStr(h), JStr(u)) : h \in Hosts, u \in Users}
RunFiles ==
    {NoFile, FileOf(JTop("malformed"))}
        \cup {FileOf(JArr(es)) : es \in SeqsUpTo(GoodElems, MaxDests)}

\* The byte strings of at most MaxOut bytes.
Outputs == SeqsUpTo({"a", "%"}, MaxOut)

Init ==
    /\ help \in BOOLEAN
    /\ nargs \in {0, 1, 2}
    /\ privateKey \in {"", "id_ed25519"}
    /\ port \in {"", "2222"}
    /\ file \in RunFiles
    /\ faults = OpenFaults \cup {"Output"}
    /\ crontabs = Outputs
    /\ Start

Spec == Init /\ [][Next]_vars

\* Configuration files of every shape: any JSON text whose arrays are short.
HostVals == {Absent, JNum, JStr("h")}
UserVals == {Absent, JNum, JStr("u")}
Elems == {JObj(h, u) : h \in HostVals, u \in UserVals} \cup {JNumElem}
\* Elements that hold a JSON null.
NullElems ==
    {JNullElem, JObj(JNull, JNull), JObj(JNull, JStr("u")), JObj(JStr("h"), JNull),
     JObj(JNull, JNum)}
JsonFiles ==
    {NoFile}
        \cup {FileOf(JTop(t)) : t \in {"malformed", "null", "num", "str", "obj"}}
        \cup {FileOf(JArr(es)) : es \in SeqsUpTo(Elems, MaxDests)}
        \cup {FileOf(JArr(<<e>>)) : e \in NullElems}

InitLoad ==
    /\ help \in BOOLEAN
    /\ nargs \in {0, 1, 2}
    /\ privateKey = ""
    /\ port = ""
    /\ file \in JsonFiles
    /\ faults = {"Dial"}
    /\ crontabs = {<<>>}
    /\ Start

SpecLoad == InitLoad /\ [][Next]_vars

\* ------------------------------------------------------------ vocabulary
Exited == exitCode # -1

\* main got past every check of its inputs and reached the fan-out.
Launching == pcMain \in {"add", "go", "wait"}

\* The goroutine of destination i has ended: it returned, or it panicked and
\* ran its deferred calls.
Ended(i) == pc[i] \in {"done", "fatal"}

\* Destination i's NewSession failed.
OpenFailed(i) == pc[i] \notin {"idle", "start"} /\ session[i].nil

\* Destination i's NewSession succeeded and its command has returned.
Ran(i) == pc[i] \in {"print", "content", "return", "done"}

Succeeded(i) == Ran(i) /\ err[i] = ""
Failed(i) == OpenFailed(i) \/ (Ran(i) /\ err[i] # "")

WritesOf(stream, i) == SelectSeq(stream, LAMBDA w : w.unit = i)
ErrorLinesOf(i) ==
    SelectSeq(stderr, LAMBDA w : w.unit = i /\ w.fmt = "ERROR: [Host] %s@%s\n")

\* The success block of destination i: the header, then the content.
Block(i, content) ==
    <<Write(i, "[Host] %s@%s\n", <<dests[i].User, dests[i].Host>>),
      Write(i, "[Content] \n%s\n", <<content>>)>>

\* No goroutine was started and nothing was acquired.
NothingLaunched ==
    /\ wg = 0
    /\ \A i \in Units :
         pc[i] = "idle" /\ session[i].nil /\ conn[i] = "none" /\ chan[i] = "none"

\* ------------------------------------------------------------ C1
\* C1: when the process has ended after the list was decoded and the fan-out
\* was reached, every destination of the list has had its unit launched and
\* that unit has ended (the join barrier).
C1_JoinBarrier ==
    (Exited /\ Launching) => \A i \in 1..Len(dests) : Ended(i)

\* ------------------------------------------------------------ C2
\* C2: a failing unit does not keep another unit from reporting: when the
\* process has ended, every destination whose open and command succeeded has
\* its success block on standard output.
C2_FailureIsolated ==
    Exited => \A i \in 1..Len(dests) :
                 Succeeded(i) => Len(WritesOf(stdout, i)) = 2

\* ------------------------------------------------------------ C3
\* C3: once the fan-out is reached, the process exits with code 0 whatever
\* destinations fail.
C3_ExitZero ==
    (Exited /\ Launching) => exitCode = 0

\* ------------------------------------------------------------ C4
\* C4: a unit that has ended wrote to exactly one stream: its success block
\* on standard output if its open and command succeeded, otherwise only an
\* error report on standard error.
C4_OneStream ==
    \A i \in Units :
        Ended(i) =>
            /\ Succeeded(i) =>
                    WritesOf(stdout, i) # <<>> /\ WritesOf(stderr, i) = <<>>
            /\ Failed(i) =>
                    WritesOf(stdout, i) = <<>> /\ WritesOf(stderr, i) # <<>>

\* ------------------------------------------------------------ C5
\* C5: the standard-output block of a successful unit is the header line
\* "[Host] user@host", then "[Content] ", a newline, exactly the bytes the
\* command returned and a newline, in this order.
C5_ExactBytes ==
    \A i \in Units :
        (pc[i] = "done" /\ Succeeded(i)) =>
            WritesOf(stdout, i) = Block(i, String(bytes[i]))

\* ------------------------------------------------------------ C6
\* C6: a unit that failed and has ended wrote exactly one "ERROR: [Host]" line
\* to standard error, and the line names the destination as user@host.
C6_OneErrorLine ==
    \A i \in Units :
        (Ended(i) /\ Failed(i)) =>
            /\ Len(ErrorLinesOf(i)) = 1
            /\ ErrorLinesOf(i)[1].args = <<dests[i].User, dests[i].Host>>

\* ------------------------------------------------------------ C7
\* The inputs C7 names: the number of positional arguments is not one, the
\* file cannot be opened, or its contents do not decode.
ConfigBad ==
    \/ nargs # 1
    \/ ~file.opens
    \/ Decode(file.json).err # ""

\* main is still checking its inputs.
Checking == pcMain \in {"help", "args", "open", "decode"}

\* C7 as stated: on such inputs the process exits with code 1, and no unit is
\* launched and no session opened.
C7_ConfigErrorExitsOne ==
    ConfigBad =>
        /\ NothingLaunched
        /\ Exited => exitCode = 1

\* C7 amended: the same, unless -h was given, in which case the process exits
\* with code 0 before it looks at its arguments.  On such inputs main never
\* gets past its checks and, until it has exited, its next check can run.
C7_ConfigErrorExits ==
    ConfigBad =>
        /\ NothingLaunched
        /\ Checking
        /\ Exited => exitCode = (IF help THEN 0 ELSE 1)
        /\ ~Exited => ENABLED (MainHelp \/ MainArgs \/ MainOpen \/ MainDecode)

\* A malformed file, opened and read as the only argument, has ended the
\* process with code 1.
C7_Witness ==
    /\ ~help /\ nargs = 1 /\ file.opens
    /\ file.json.t = "malformed"
    /\ pcMain = "decode" /\ exitCode = 1

\* ------------------------------------------------------------ C10
\* The file is read: -h is not given, there is one argument and it opens.
FileRead == ~help /\ nargs = 1 /\ file.opens

\* Element e is an object that lacks the host key or the user key.
LacksField(e) == e.t = "obj" /\ (e.host = Absent \/ e.user = Absent)

\* A value that a string field takes: a string, null, or no value at all.
FieldFits(f) == f.t \in {"str", "null", "absent"}

\* The JSON text has the shape of a list of destinations: null, or an array
\* whose elements are null or objects whose host and user fit a string field.
Shaped(j) ==
    \/ j.t = "null"
    \/ /\ j.t = "arr"
       /\ \A k \in 1..Len(j.elems) :
            \/ j.elems[k].t = "null"
            \/ /\ j.elems[k].t = "obj"
               /\ FieldFits(j.elems[k].host)
               /\ FieldFits(j.elems[k].user)

\* The string a field is decoded to.
FieldText(f) == IF f.t = "str" THEN f.v ELSE ""

C8_AllClosed ==
    \A i \in Units :
        Ended(i) => conn[i] # "open" /\ chan[i] # "open"

\* ------------------------------------------------------------ C9
\* C9: Close never raises, also on the nil session that NewSession returns
\* when it fails.
C9_CloseIsSafe ==
    \A i \in Units : \A k \in 1..Len(panics[i]) : panics[i][k] # "Close"
====
